---- MODULE Spec2Model ----
(***************************************************************************)
(* tforder: dependency graph ordering and execution.                       *)
(*                                                                         *)
(* The module models four pieces of the repository:                        *)
(*   topoSort      Kahn's algorithm (util.go, and the variant that takes   *)
(*                 a reverse flag),                                        *)
(*   execInOrder   the dependency-aware executor (order, edges, cmd, P),   *)
(*   execSeq       the order-only executor execInOrder(order, cmd, P),     *)
(*   dagExec       the wave executor main calls.                           *)
(* A node is a small integer; an edge is a pair <<Source, Target>>.        *)
(***************************************************************************)
EXTENDS Integers, Sequences, FiniteSets, TLC

\* ------------------------------------------------------------------ bounds
MaxNodes == 3
MaxEdges == 3
MaxParallel == 2

Nodes == 1..MaxNodes
Edge == Nodes \X Nodes

\* ------------------------------------------------------------ sequences
Range(s) == {s[i] : i \in 1..Len(s)}

RECURSIVE SeqsUpTo(_, _)
SeqsUpTo(S, n) ==
  IF n = 0 THEN {<<>>}
  ELSE LET shorter == SeqsUpTo(S, n - 1)
       IN shorter \cup {Append(s, x) : s \in {t \in shorter : Len(t) = n - 1}, x \in S}

\* every edge list of at most MaxEdges edges over Nodes
EdgeLists == SeqsUpTo(Edge, MaxEdges)

RECURSIVE Perms(_)
\* the sequences that list every element of S exactly once
Perms(S) ==
  IF S = {} THEN {<<>>}
  ELSE UNION {{<<x>> \o p : p \in Perms(S \ {x})} : x \in S}

\* position of x in the duplicate-free sequence s (0 when absent)
Pos(s, x) == IF \E i \in 1..Len(s) : s[i] = x
             THEN CHOOSE i \in 1..Len(s) : s[i] = x
             ELSE 0

NoDup(s) == \A i, j \in 1..Len(s) : s[i] = s[j] => i = j

\* --------------------------------------------------------------- graphs
\* the union of all edge endpoints
NodesOf(es) == {es[i][1] : i \in 1..Len(es)} \cup {es[i][2] : i \in 1..Len(es)}

EdgeSet(es) == Range(es)

RECURSIVE Grow(_, _)
\* the least set containing T and closed under the edges of E
Grow(E, T) ==
  LET T2 == T \cup {e[2] : e \in {f \in E : f[1] \in T}}
  IN IF T2 = T THEN T ELSE Grow(E, T2)

\* the nodes reachable from the set S along one or more edges of E
ReachFrom(E, S) == Grow(E, {e[2] : e \in {f \in E : f[1] \in S}})

\* an edge set has a cycle when some node reaches itself
HasCycle(es) == \E n \in NodesOf(es) : n \in ReachFrom(EdgeSet(es), {n})

\* ------------------------------------------------------------- topoSort
\* Slices share memory: a heap is a list of edge arrays, and a slice is the
\* index of its array. make([]Edge, n) allocates an array of n zero Edges.
Make(heap, n) == Append(heap, [i \in 1..n |-> <<0, 0>>])

RECURSIVE ReverseLoop(_, _, _, _)
\* `for i, e := range edges { reversed[i] = Edge{e.Target, e.Source} }`
\* with edges the array src and reversed the array dst, from index i on
ReverseLoop(heap, src, dst, i) ==
  IF i > Len(heap[src]) THEN heap
  ELSE ReverseLoop([heap EXCEPT ![dst][i] = <<heap[src][i][2], heap[src][i][1]>>],
                   src, dst, i + 1)

\* mutant of ReverseEdgesOn: the swap is made in the argument's own array
ReverseEdgesInPlace(heap, src) ==
  [heap |-> ReverseLoop(heap, src, src, 1), ret |-> src]

\* reverseEdges run on a heap: the heap it leaves and the array it returns
ReverseEdgesOn(heap, src) ==
  LET h == Make(heap, Len(heap[src]))
  IN [heap |-> ReverseLoop(h, src, Len(h), 1), ret |-> Len(h)]

\* reverseEdges: the list it returns
reverseEdges(es) ==
  LET r == ReverseEdgesOn(<<es>>, 1) IN r.heap[r.ret]

\* the caller's list after topoSort(edges, reverse) has returned
EdgesAfterTopoSort(es, rev) ==
  IF rev THEN ReverseEdgesOn(<<es>>, 1).heap[1] ELSE es

\* mutant of SortEdges: the reverse flag is ignored
SortEdgesIgnoreReverse(es, rev) == es

\* sortEdges := edges; if reverse { sortEdges = reverseEdges(edges) }
SortEdges(es, rev) == IF rev THEN reverseEdges(es) ELSE es

\* mutant of AdjOf: a target is listed once however often its edge occurs
AdjOfDistinct(es, n) ==
  LET F[i \in 0..Len(es)] ==
        IF i = 0 THEN <<>>
        ELSE IF es[i][1] = n /\ es[i][2] \notin Range(F[i - 1])
             THEN Append(F[i - 1], es[i][2]) ELSE F[i - 1]
  IN F[Len(es)]

\* adj[n]: the targets of the edges leaving n, in list order, duplicates kept
AdjOf(es, n) ==
  LET F[i \in 0..Len(es)] ==
        IF i = 0 THEN <<>>
        ELSE IF es[i][1] = n THEN Append(F[i - 1], es[i][2]) ELSE F[i - 1]
  IN F[Len(es)]

\* inDegree[n]: one count per edge entering n, duplicates counted
InDegreeOf(es, n) == Cardinality({i \in 1..Len(es) : es[i][2] = n})

BuildAdj(es) == [n \in NodesOf(es) |-> AdjOf(es, n)]
BuildInDegree(es) == [n \in NodesOf(es) |-> InDegreeOf(es, n)]

\* the initial queue: the nodes of in-degree 0, in the order the map
\* iteration `for n := range nodes` happens to deliver them (iter)
InitialQueue(inDeg, iter) == SelectSeq(iter, LAMBDA n : inDeg[n] = 0)

RECURSIVE RelaxOffByOne(_, _, _)
\* mutant of Relax: the target is enqueued one decrement too early as well
RelaxOffByOne(ms, inDeg, queue) ==
  IF ms = <<>> THEN [inDeg |-> inDeg, queue |-> queue]
  ELSE LET m  == Head(ms)
           d2 == [inDeg EXCEPT ![m] = @ - 1]
       IN RelaxOffByOne(Tail(ms), d2, IF d2[m] \in {0, 1} THEN Append(queue, m) ELSE queue)

RECURSIVE Relax(_, _, _)
\* for _, m := range adj[n] { inDegree[m]--; if inDegree[m] == 0 { enqueue } }
Relax(ms, inDeg, queue) ==
  IF ms = <<>> THEN [inDeg |-> inDeg, queue |-> queue]
  ELSE LET m  == Head(ms)
           d2 == [inDeg EXCEPT ![m] = @ - 1]
       IN Relax(Tail(ms), d2, IF d2[m] = 0 THEN Append(queue, m) ELSE queue)

RECURSIVE KahnLoop(_, _, _, _)
\* for len(queue) > 0 { pop n; order = append(order, n); relax adj[n] }
KahnLoop(queue, order, inDeg, adj) ==
  IF queue = <<>> THEN order
  ELSE LET n == Head(queue)
           r == Relax(adj[n], inDeg, Tail(queue))
       IN KahnLoop(r.queue, Append(order, n), r.inDeg, adj)

\* mutant of TopoReturn: the length test is dropped, a partial order returned
TopoReturnPartial(order, nodes) ==
  [err |-> FALSE, isNil |-> (order = <<>>), list |-> order]

\* the final test: a short order is a cycle, reported with a nil list.
\* isNil tells Go's nil slice from an empty one (order starts nil).
TopoReturn(order, nodes) ==
  IF Len(order) # Cardinality(nodes)
  THEN [err |-> TRUE, isNil |-> TRUE, list |-> <<>>]
  ELSE [err |-> FALSE, isNil |-> (order = <<>>), list |-> order]

\* topoSort(edges, reverse); topoSort(edges) of util.go is reverse = FALSE
topoSort(es, rev, iter) ==
  LET se == SortEdges(es, rev)
      inDeg == BuildInDegree(se)
  IN TopoReturn(KahnLoop(InitialQueue(inDeg, iter), <<>>, inDeg, BuildAdj(se)),
                NodesOf(se))

NoResult == [err |-> FALSE, isNil |-> TRUE, list |-> <<>>]

\* ------------------------------------------------------------------ state
VARIABLES
  impl,           \* which function this run calls
  edges,          \* the edge list argument
  reverse,        \* topoSort's reverse flag
  pcTopo,         \* "call" before topoSort has run, "returned" after
  topoResult,     \* what topoSort returned
  topoAgain,      \* what a second call with the same arguments returned
  order,          \* execInOrder's order argument
  maxParallel,    \* the maxParallel argument
  fails,          \* the directories in which the command exits non-zero
  dependencies,   \* dependencies[n]: the nodes n waits for
  dependents,     \* dependents[n]: the nodes that wait for n
  ready,          \* channel ready: the buffered nodes, oldest first
  readyClosed,    \* close(ready) has run
  completed,      \* channel completed
  completedClosed,\* close(completed) has run
  errCh,          \* channel errCh: an error is named by the node that failed
  sem,            \* the number of semaphore slots taken
  ctxDone,        \* cancel() has run
  completedNodes, \* the nodes n with completedNodes[n] = true
  completedMutex, \* "free", or the goroutine that holds it
  pcW,            \* per worker: "select", "sem" (holds a node, wants a slot), "exit"
  wDir,           \* per worker: the node it took from ready (0: none)
  acts,           \* the live action goroutines
  spawned,        \* per node: how many action goroutines were spawned for it
  comp,           \* the completion goroutine: pc, node in hand, dependents left
  pcCloser,       \* the closer goroutine: "poll", "close", "done"
  pcMain,         \* the calling goroutine: "wait", "select", "returned"
  result,         \* the returned error: <<>> is nil, <<n>> the error of node n
  panicked,       \* the process died of a send on a closed channel
  inDegree,       \* dagExec's inDegree map
  idx,            \* the order-only executor's position in `order`
  startCount,     \* per node: how many times its command was started
  succeeded,      \* the nodes whose command has exited zero
  failed,         \* the nodes whose command has returned an error
  sends,          \* per channel and node: how many times it was sent
  pcProg,         \* main's position: "idle" when the run is no run of main
  decls,          \* the file system: a pair <<d, t>> for every entry of the
                  \* dependencies block of t/main.tf whose path leads to d
  stacks,         \* the file system: the directories that hold a main.tf
  startDir,       \* -dir (0 stands for a root above every directory)
  recursivePtr,   \* -recursive
  reversePtr,     \* -reverse
  execPtr,        \* -execute was given a command
  edgeSet,        \* main's edgeSet, the keys of the map
  written         \* the edges writeDotFileMap wrote

topoVars == <<reverse, pcTopo, topoResult, topoAgain>>
inputVars == <<impl, edges, order, maxParallel, fails, dependencies, dependents>>
chanVars == <<ready, readyClosed, completed, completedClosed, errCh>>
workerVars == <<pcW, wDir>>
histVars == <<startCount, succeeded, failed, sends>>
execVars == <<chanVars, sem, ctxDone, completedNodes, completedMutex, workerVars,
              acts, spawned, comp, pcCloser, pcMain, result, panicked, histVars>>
loopVars == <<inDegree, idx>>
\* what only the dependency-aware executor uses
depVars == <<readyClosed, completed, completedClosed, completedNodes, completedMutex,
             workerVars, comp, pcCloser, panicked>>
mainVars == <<pcProg, decls, stacks, startDir, recursivePtr, reversePtr, execPtr,
              edgeSet, written>>
vars == <<topoVars, mainVars, inputVars, execVars, loopVars, mainVars>>

LoopIdle == inDegree = <<>> /\ idx = 0

\* the values the executor variables keep while another function runs
ExecIdle ==
  /\ order = <<>> /\ maxParallel = 0 /\ fails = {}
  /\ dependencies = <<>> /\ dependents = <<>>
  /\ ready = <<>> /\ readyClosed = FALSE
  /\ completed = <<>> /\ completedClosed = FALSE
  /\ errCh = <<>> /\ sem = 0 /\ ctxDone = FALSE
  /\ completedNodes = {} /\ completedMutex = "free"
  /\ pcW = <<>> /\ wDir = <<>> /\ acts = {} /\ spawned = <<>>
  /\ comp = [pc |-> "done", node |-> 0, pending |-> {}]
  /\ pcCloser = "done" /\ pcMain = "idle" /\ result = <<>>
  /\ panicked = FALSE
  /\ startCount = <<>> /\ succeeded = {} /\ failed = {} /\ sends = <<>>
  /\ LoopIdle

\* the values main's variables keep when a function is run on its own
MainIdle ==
  /\ pcProg = "idle" /\ decls = <<>> /\ stacks = {} /\ startDir = 0
  /\ recursivePtr = FALSE /\ reversePtr = FALSE /\ execPtr = FALSE
  /\ edgeSet = {} /\ written = {}

TopoIdle ==
  /\ reverse = FALSE /\ pcTopo = "idle"
  /\ topoResult = NoResult /\ topoAgain = NoResult

\* -------------------------------------------------- topoSort as a program
InitTopo ==
  /\ impl = "topoSort"
  /\ edges \in EdgeLists
  /\ reverse \in BOOLEAN
  /\ pcTopo = "call"
  /\ topoResult = NoResult /\ topoAgain = NoResult
  /\ ExecIdle
  /\ MainIdle

\* one call of topoSort; the map iteration order is the only free choice
TopoSortCall ==
  /\ impl = "topoSort"
  /\ pcTopo = "call"
  /\ \E iter \in Perms(NodesOf(edges)) :
       topoResult' = topoSort(edges, reverse, iter)
  /\ pcTopo' = "returned"
  /\ edges' = EdgesAfterTopoSort(edges, reverse)
  /\ UNCHANGED <<reverse, topoAgain, impl, order, maxParallel, fails, dependencies,
                 dependents, execVars, loopVars, mainVars>>

\* a second call in the same process, with the same edge list and flag:
\* `for n := range nodes` iterates the map in an order of its own
TopoSortAgain ==
  /\ impl = "topoSort"
  /\ pcTopo = "returned"
  /\ \E iter \in Perms(NodesOf(edges)) :
       topoAgain' = topoSort(edges, reverse, iter)
  /\ pcTopo' = "again"
  /\ edges' = EdgesAfterTopoSort(edges, reverse)
  /\ UNCHANGED <<reverse, topoResult, impl, order, maxParallel, fails, dependencies,
                 dependents, execVars, loopVars, mainVars>>

NextTopo == TopoSortCall \/ TopoSortAgain

SpecTopo == InitTopo /\ [][NextTopo]_vars

\* ------------------------------------- execInOrder(order, edges, cmd, P)
\* mutant of Dependencies: Source and Target exchanged
DependenciesSwapped(ord, es) ==
  [n \in Range(ord) |-> {es[i][2] : i \in {j \in 1..Len(es) : es[j][1] = n}}]

\* dependencies[edge.Target][edge.Source] = true, for every node of order
Dependencies(ord, es) ==
  [n \in Range(ord) |-> {es[i][1] : i \in {j \in 1..Len(es) : es[j][2] = n}}]

\* dependents[edge.Source][edge.Target] = true
Dependents(ord, es) ==
  [n \in Range(ord) |-> {es[i][2] : i \in {j \in 1..Len(es) : es[j][1] = n}}]

\* mutant of InitialReady: every node of `order` is queued at the start
InitialReadyAll(ord, deps) == ord

\* the nodes without dependencies are sent on ready in the order of `order`
InitialReady(ord, deps) == SelectSeq(ord, LAMBDA n : deps[n] = {})

\* mutant of Workers: the loop test is i <= maxParallel
WorkersOneMore == 1..(maxParallel + 1)

\* `for i := 0; i < maxParallel; i++`: the workers started
Workers == 1..maxParallel

\* mutant of ChanCap: the channels hold half as many items
ChanCapHalf == Len(order) \div 2

\* make(chan ..., len(order)): the capacity of ready, completed and errCh
ChanCap == Len(order)

\* e stands at or before f in the lexicographic order of edges
EdgeLeq(e, f) == e[1] < f[1] \/ (e[1] = f[1] /\ e[2] <= f[2])

\* the edge lists execInOrder is run on: the acyclic ones (its caller sorts
\* first, and a cycle makes topoSort fail). execInOrder only fills two
\* maps of sets from the list, so lists with the same edges are one input:
\* each edge set is given as its sorted lists, repeated edges included.
DagLists ==
  {es \in EdgeLists :
     /\ es # <<>> /\ ~HasCycle(es)
     /\ \A i \in 1..(Len(es) - 1) : EdgeLeq(es[i], es[i + 1])}

\* execInOrder up to wg.Wait() (lines 15-52, and the goroutines spawned):
\* what the arguments make of the other variables
ExecStart ==
  /\ impl = "execInOrder"
  /\ TopoIdle /\ MainIdle
  /\ dependencies = Dependencies(order, edges)
  /\ dependents = Dependents(order, edges)
  /\ ready = InitialReady(order, dependencies)
  /\ readyClosed = FALSE
  /\ completed = <<>> /\ completedClosed = FALSE
  /\ errCh = <<>> /\ sem = 0 /\ ctxDone = FALSE
  /\ completedNodes = {} /\ completedMutex = "free"
  /\ pcW = [w \in Workers |-> "select"]
  /\ wDir = [w \in Workers |-> 0]
  /\ acts = {}
  /\ spawned = [n \in NodesOf(edges) |-> 0]
  /\ comp = [pc |-> "recv", node |-> 0, pending |-> {}]
  /\ pcCloser = "poll" /\ pcMain = "wait" /\ result = <<>>
  /\ panicked = FALSE
  /\ startCount = [n \in NodesOf(edges) |-> 0]
  /\ succeeded = {} /\ failed = {}
  /\ sends = [ready |-> [n \in NodesOf(edges) |->
                           IF n \in Range(ready) THEN 1 ELSE 0],
              completed |-> [n \in NodesOf(edges) |-> 0]]
  /\ LoopIdle

\* the state when the goroutines have been spawned and main is at wg.Wait
InitExec ==
  /\ edges \in DagLists
  /\ order \in Perms(NodesOf(edges))
  /\ maxParallel \in 0..MaxParallel
  /\ fails \in SUBSET NodesOf(edges)
  /\ ExecStart

ExecLive == impl = "execInOrder" /\ ~panicked

\* ---- blocking and waking (Go's channel operations)
\* A goroutine that finds no case of its select ready parks; the first
\* event that makes a case ready wakes it with that case. pcW is
\*   "select"     about to evaluate the outer select
\*   "parked"     blocked in the outer select
\*   "sem"        holds a node, about to evaluate the inner select
\*   "semParked"  holds a node, blocked in the inner select
\*   "acquired"   woken with the slot a releasing goroutine handed over
\*   "exit"       returned (wg.Done)
ParkedOn(pc) == {w \in DOMAIN pcW : pcW[w] = pc}

\* cancel() closes ctx.Done(): every blocked select returns through it
WakeOnCancel(pcw) ==
  [w \in DOMAIN pcw |-> IF pcw[w] \in {"parked", "semParked"} THEN "exit" ELSE pcw[w]]

\* close(ready): every worker blocked in the outer select receives !ok
WakeOnClose(pcw) ==
  [w \in DOMAIN pcw |-> IF pcw[w] = "parked" THEN "exit" ELSE pcw[w]]

\* ready <- d: handed to a worker blocked in the outer select if there is
\* one, buffered otherwise
SendReady(d) ==
  IF ParkedOn("parked") # {}
  THEN /\ \E w \in ParkedOn("parked") :
            /\ pcW' = [pcW EXCEPT ![w] = "sem"]
            /\ wDir' = [wDir EXCEPT ![w] = d]
       /\ UNCHANGED ready
  ELSE /\ Len(ready) < ChanCap
       /\ ready' = Append(ready, d)
       /\ UNCHANGED workerVars

\* <-sem: the slot goes to a worker blocked in the inner select if there is
\* one, and is free otherwise
ReleaseSem ==
  IF ParkedOn("semParked") # {}
  THEN /\ \E w \in ParkedOn("semParked") : pcW' = [pcW EXCEPT ![w] = "acquired"]
       /\ UNCHANGED <<sem, wDir>>
  ELSE /\ sem' = sem - 1
       /\ UNCHANGED workerVars

\* ---- workers (lines 81-135)
\* outer select, case dir, ok := <-ready with a node buffered
WorkerTake(w) ==
  /\ ExecLive /\ pcW[w] = "select"
  /\ ready # <<>>
  /\ wDir' = [wDir EXCEPT ![w] = Head(ready)]
  /\ ready' = Tail(ready)
  /\ pcW' = [pcW EXCEPT ![w] = "sem"]
  /\ UNCHANGED <<loopVars, topoVars, mainVars, inputVars, readyClosed, completed,
                 completedClosed, errCh, sem, ctxDone, completedNodes, completedMutex,
                 acts, spawned, comp, pcCloser, pcMain, result, panicked, histVars>>

\* outer select, case <-ready on the closed, drained channel: !ok, return
WorkerReadyClosed(w) ==
  /\ ExecLive /\ pcW[w] = "select"
  /\ ready = <<>> /\ readyClosed
  /\ pcW' = [pcW EXCEPT ![w] = "exit"]
  /\ UNCHANGED <<loopVars, topoVars, mainVars, inputVars, chanVars, sem, ctxDone,
                 completedNodes, completedMutex, wDir, acts, spawned, comp, pcCloser,
                 pcMain, result, panicked, histVars>>

\* either select, case <-ctx.Done(): return (the node in hand is dropped)
WorkerCancelled(w) ==
  /\ ExecLive /\ pcW[w] \in {"select", "sem"}
  /\ ctxDone
  /\ pcW' = [pcW EXCEPT ![w] = "exit"]
  /\ UNCHANGED <<loopVars, topoVars, mainVars, inputVars, chanVars, sem, ctxDone,
                 completedNodes, completedMutex, wDir, acts, spawned, comp, pcCloser,
                 pcMain, result, panicked, histVars>>

\* no case of the select is ready: the worker blocks
WorkerPark(w) ==
  /\ ExecLive /\ ~ctxDone
  /\ \/ /\ pcW[w] = "select"
        /\ ready = <<>> /\ ~readyClosed
        /\ pcW' = [pcW EXCEPT ![w] = "parked"]
     \/ /\ pcW[w] = "sem"
        /\ sem >= maxParallel
        /\ pcW' = [pcW EXCEPT ![w] = "semParked"]
  /\ UNCHANGED <<loopVars, topoVars, mainVars, inputVars, chanVars, sem, ctxDone,
                 completedNodes, completedMutex, wDir, acts, spawned, comp, pcCloser,
                 pcMain, result, panicked, histVars>>

\* the goroutine go func(dir) starts with
NewAct(w) == [dir |-> wDir[w], k |-> spawned[wDir[w]], pc |-> "spawned", dead |-> FALSE]

\* mutant of WorkerDispatch: the goroutine is spawned without a slot
WorkerDispatchNoSem(w) ==
  /\ ExecLive /\ pcW[w] \in {"sem", "acquired"}
  /\ sem' = IF pcW[w] = "sem" THEN sem + 1 ELSE sem
  /\ acts' = acts \cup {NewAct(w)}
  /\ spawned' = [spawned EXCEPT ![wDir[w]] = @ + 1]
  /\ pcW' = [pcW EXCEPT ![w] = "select"]
  /\ wDir' = [wDir EXCEPT ![w] = 0]
  /\ UNCHANGED <<loopVars, topoVars, mainVars, inputVars, chanVars, ctxDone, completedNodes,
                 completedMutex, comp, pcCloser, pcMain, result, panicked, histVars>>

\* inner select, case sem <- struct{}{} (a slot is free, or was handed
\* over); go func(dir)
WorkerDispatch(w) ==
  /\ ExecLive
  /\ \/ pcW[w] = "sem" /\ sem < maxParallel /\ sem' = sem + 1
     \/ pcW[w] = "acquired" /\ sem' = sem
  /\ acts' = acts \cup {NewAct(w)}
  /\ spawned' = [spawned EXCEPT ![wDir[w]] = @ + 1]
  /\ pcW' = [pcW EXCEPT ![w] = "select"]
  /\ wDir' = [wDir EXCEPT ![w] = 0]
  /\ UNCHANGED <<loopVars, topoVars, mainVars, inputVars, chanVars, ctxDone, completedNodes,
                 completedMutex, comp, pcCloser, pcMain, result, panicked, histVars>>

\* ---- the error value
\* why cmd.CombinedOutput() returned an error in directory n: the command
\* exited non-zero there, or the cancelled context stopped it
Cause(n) == IF n \in fails THEN "exit status 1" ELSE "context canceled"

\* the value sent by `errCh <- err`: err as CombinedOutput returned it. The
\* directory is printed on stdout and is no part of the value.
ErrOf(directory, cause) == cause

\* ---- action goroutines (lines 104-131)
\* mutant of ActStart: completedNodes is read without taking the mutex
ActStartNoLock(a) ==
  /\ ExecLive /\ a \in acts /\ a.pc = "spawned"
  /\ IF a.dir \in completedNodes
     THEN /\ acts' = acts \ {a}
          /\ ReleaseSem
          /\ UNCHANGED startCount
     ELSE /\ acts' = (acts \ {a}) \cup {[a EXCEPT !.pc = "run", !.dead = ctxDone]}
          /\ startCount' = [startCount EXCEPT ![a.dir] = @ + 1]
          /\ UNCHANGED <<sem, workerVars>>
  /\ UNCHANGED <<loopVars, topoVars, mainVars, inputVars, chanVars, ctxDone, completedNodes,
                 completedMutex, spawned, comp, pcCloser, pcMain, result, panicked,
                 succeeded, failed, sends>>

\* the check of completedNodes under the mutex; an already completed node
\* returns at once (releasing its slot), any other starts its command.
\* exec.CommandContext refuses to spawn a process once ctx is cancelled:
\* such a command is dead, CombinedOutput returns the context's error.
ActStart(a) ==
  /\ ExecLive /\ a \in acts /\ a.pc = "spawned"
  /\ completedMutex = "free"
  /\ IF a.dir \in completedNodes
     THEN /\ acts' = acts \ {a}
          /\ ReleaseSem
          /\ UNCHANGED startCount
     ELSE /\ acts' = (acts \ {a}) \cup {[a EXCEPT !.pc = "run", !.dead = ctxDone]}
          /\ startCount' = [startCount EXCEPT ![a.dir] = @ + 1]
          /\ UNCHANGED <<sem, workerVars>>
  /\ UNCHANGED <<loopVars, topoVars, mainVars, inputVars, chanVars, ctxDone, completedNodes,
                 completedMutex, spawned, comp, pcCloser, pcMain, result, panicked,
                 succeeded, failed, sends>>

\* the command returns an error: it exits non-zero, or it was never
\* spawned, or the cancelled context killed it; errCh <- err
ActFail(a) ==
  /\ ExecLive /\ a \in acts /\ a.pc = "run"
  /\ a.dir \in fails \/ a.dead \/ ctxDone
  /\ Len(errCh) < ChanCap
  /\ errCh' = Append(errCh, a.dir)
  /\ failed' = failed \cup {a.dir}
  /\ acts' = (acts \ {a}) \cup {[a EXCEPT !.pc = "cancel"]}
  /\ UNCHANGED <<loopVars, topoVars, mainVars, inputVars, ready, readyClosed, completed,
                 completedClosed, sem, ctxDone, completedNodes, completedMutex,
                 workerVars, spawned, comp, pcCloser, pcMain, result, panicked,
                 startCount, succeeded, sends>>

\* cancel(), which wakes every blocked worker; return, and the deferred <-sem
ActCancel(a) ==
  /\ ExecLive /\ a \in acts /\ a.pc = "cancel"
  /\ ctxDone' = TRUE
  /\ pcW' = WakeOnCancel(pcW)
  /\ sem' = sem - 1
  /\ acts' = acts \ {a}
  /\ UNCHANGED <<loopVars, topoVars, mainVars, inputVars, chanVars, completedNodes,
                 completedMutex, wDir, spawned, comp, pcCloser, pcMain, result,
                 panicked, histVars>>

\* the command exits zero: completed <- directory, then the deferred <-sem.
\* A send on the closed channel panics.
ActSucceed(a) ==
  /\ ExecLive /\ a \in acts /\ a.pc = "run"
  /\ a.dir \notin fails /\ ~a.dead
  /\ completedClosed \/ Len(completed) < ChanCap
  /\ succeeded' = succeeded \cup {a.dir}
  /\ sends' = [sends EXCEPT !.completed[a.dir] = @ + 1]
  /\ IF completedClosed
     THEN panicked' = TRUE /\ UNCHANGED completed
     ELSE completed' = Append(completed, a.dir) /\ UNCHANGED panicked
  /\ ReleaseSem
  /\ acts' = acts \ {a}
  /\ UNCHANGED <<loopVars, topoVars, mainVars, inputVars, ready, readyClosed, completedClosed,
                 errCh, ctxDone, completedNodes, completedMutex, spawned, comp,
                 pcCloser, pcMain, result, startCount, failed>>

\* ---- the completion goroutine (lines 55-78)
\* mutant of CompRecv: a completion is received only while a slot is free
CompRecvNeedsSlot ==
  /\ ExecLive /\ comp.pc = "recv"
  /\ completed # <<>>
  /\ sem < maxParallel
  /\ completedMutex = "free"
  /\ completedMutex' = "completion"
  /\ completedNodes' = completedNodes \cup {Head(completed)}
  /\ completed' = Tail(completed)
  /\ comp' = [pc |-> "scan", node |-> Head(completed),
               pending |-> dependents[Head(completed)]]
  /\ UNCHANGED <<loopVars, topoVars, mainVars, inputVars, ready, readyClosed, completedClosed,
                 errCh, sem, ctxDone, workerVars, acts, spawned, pcCloser, pcMain,
                 result, panicked, histVars>>

\* node := <-completed; completedMutex.Lock(); completedNodes[node] = true
CompRecv ==
  /\ ExecLive /\ comp.pc = "recv"
  /\ completed # <<>>
  /\ completedMutex = "free"
  /\ completedMutex' = "completion"
  /\ completedNodes' = completedNodes \cup {Head(completed)}
  /\ completed' = Tail(completed)
  /\ comp' = [pc |-> "scan", node |-> Head(completed),
               pending |-> dependents[Head(completed)]]
  /\ UNCHANGED <<loopVars, topoVars, mainVars, inputVars, ready, readyClosed, completedClosed,
                 errCh, sem, ctxDone, workerVars, acts, spawned, pcCloser, pcMain,
                 result, panicked, histVars>>

\* mutant of CompScan: the dependent is sent on ready as soon as one of
\* its dependencies has completed
CompScanAny(d) ==
  /\ ExecLive /\ comp.pc = "scan"
  /\ d \in comp.pending
  /\ comp' = [comp EXCEPT !.pending = @ \ {d}]
  /\ sends' = [sends EXCEPT !.ready[d] = @ + 1]
  /\ IF readyClosed
     THEN panicked' = TRUE /\ UNCHANGED <<ready, workerVars>>
     ELSE SendReady(d) /\ UNCHANGED panicked
  /\ UNCHANGED <<loopVars, topoVars, mainVars, inputVars, readyClosed, completed,
                 completedClosed, errCh, sem, ctxDone, completedNodes, completedMutex,
                 acts, spawned, pcCloser, pcMain, result, startCount, succeeded,
                 failed>>

\* one iteration of `for dependent := range dependents[node]`: the dependent
\* is sent on ready when all its dependencies are completed; a send on the
\* closed channel panics
CompScan(d) ==
  /\ ExecLive /\ comp.pc = "scan"
  /\ d \in comp.pending
  /\ comp' = [comp EXCEPT !.pending = @ \ {d}]
  /\ IF dependencies[d] \subseteq completedNodes
     THEN /\ sends' = [sends EXCEPT !.ready[d] = @ + 1]
          /\ IF readyClosed
             THEN panicked' = TRUE /\ UNCHANGED <<ready, workerVars>>
             ELSE SendReady(d) /\ UNCHANGED panicked
     ELSE UNCHANGED <<ready, workerVars, panicked, sends>>
  /\ UNCHANGED <<loopVars, topoVars, mainVars, inputVars, readyClosed, completed,
                 completedClosed, errCh, sem, ctxDone, completedNodes, completedMutex,
                 acts, spawned, pcCloser, pcMain, result, startCount, succeeded,
                 failed>>

\* completedMutex.Unlock() after the last dependent
CompUnlock ==
  /\ ExecLive /\ comp.pc = "scan"
  /\ comp.pending = {}
  /\ completedMutex' = "free"
  /\ comp' = [pc |-> "recv", node |-> 0, pending |-> {}]
  /\ UNCHANGED <<loopVars, topoVars, mainVars, inputVars, chanVars, sem, ctxDone,
                 completedNodes, workerVars, acts, spawned, pcCloser, pcMain, result,
                 panicked, histVars>>

\* `for node := range completed` ends on the closed, drained channel
CompExit ==
  /\ ExecLive /\ comp.pc = "recv"
  /\ completed = <<>> /\ completedClosed
  /\ comp' = [comp EXCEPT !.pc = "done"]
  /\ UNCHANGED <<loopVars, topoVars, mainVars, inputVars, chanVars, sem, ctxDone,
                 completedNodes, completedMutex, workerVars, acts, spawned, pcCloser,
                 pcMain, result, panicked, histVars>>

\* mutant of CloserPoll: the all-nodes-completed test never succeeds
CloserPollOnlyCancel ==
  /\ ExecLive /\ pcCloser = "poll"
  /\ ctxDone
  /\ pcCloser' = "close"
  /\ UNCHANGED <<loopVars, topoVars, mainVars, inputVars, chanVars, sem, ctxDone,
                 completedNodes, completedMutex, workerVars, acts, spawned, comp,
                 pcMain, result, panicked, histVars>>

\* ---- the closer goroutine (lines 138-165)
\* one round of the polling loop that ends it: ctx.Err() != nil, or, under
\* the mutex, every node of order completed. Any other round changes nothing.
CloserPoll ==
  /\ ExecLive /\ pcCloser = "poll"
  /\ ctxDone \/ (completedMutex = "free" /\ Range(order) \subseteq completedNodes)
  /\ pcCloser' = "close"
  /\ UNCHANGED <<loopVars, topoVars, mainVars, inputVars, chanVars, sem, ctxDone,
                 completedNodes, completedMutex, workerVars, acts, spawned, comp,
                 pcMain, result, panicked, histVars>>

\* close(ready), which wakes the workers blocked in the outer select
CloserClose ==
  /\ ExecLive /\ pcCloser = "close"
  /\ readyClosed' = TRUE
  /\ pcW' = WakeOnClose(pcW)
  /\ pcCloser' = "done"
  /\ UNCHANGED <<loopVars, topoVars, mainVars, inputVars, ready, completed, completedClosed,
                 errCh, sem, ctxDone, completedNodes, completedMutex, wDir, acts,
                 spawned, comp, pcMain, result, panicked, histVars>>

\* ---- the calling goroutine (lines 167-177)
\* wg.Wait() returns when every worker has returned; close(completed)
MainClose ==
  /\ ExecLive /\ pcMain = "wait"
  /\ \A w \in Workers : pcW[w] = "exit"
  /\ completedClosed' = TRUE
  /\ pcMain' = "select"
  /\ UNCHANGED <<loopVars, topoVars, mainVars, inputVars, ready, readyClosed, completed, errCh,
                 sem, ctxDone, completedNodes, completedMutex, workerVars, acts,
                 spawned, comp, pcCloser, result, panicked, histVars>>

\* mutant of MainReturn: the error recorded last is the one returned
MainReturnLastErr ==
  /\ ExecLive /\ pcMain = "select"
  /\ IF errCh # <<>>
     THEN result' = <<errCh[Len(errCh)]>> /\ errCh' = SubSeq(errCh, 1, Len(errCh) - 1)
     ELSE result' = <<>> /\ UNCHANGED errCh
  /\ ctxDone' = TRUE
  /\ pcMain' = "returned"
  /\ UNCHANGED <<loopVars, topoVars, mainVars, inputVars, ready, readyClosed, completed,
                 completedClosed, sem, completedNodes, completedMutex, workerVars,
                 acts, spawned, comp, pcCloser, panicked, histVars>>

\* select { case err := <-errCh: return err; default: return nil }, and
\* the deferred cancel()
MainReturn ==
  /\ ExecLive /\ pcMain = "select"
  /\ IF errCh # <<>>
     THEN result' = <<Head(errCh)>> /\ errCh' = Tail(errCh)
     ELSE result' = <<>> /\ UNCHANGED errCh
  /\ ctxDone' = TRUE
  /\ pcMain' = "returned"
  /\ UNCHANGED <<loopVars, topoVars, mainVars, inputVars, ready, readyClosed, completed,
                 completedClosed, sem, completedNodes, completedMutex, workerVars,
                 acts, spawned, comp, pcCloser, panicked, histVars>>

NextExec ==
  \/ \E w \in 1..MaxParallel :
       /\ w <= maxParallel
       /\ \/ WorkerTake(w)
          \/ WorkerReadyClosed(w)
          \/ WorkerCancelled(w)
          \/ WorkerPark(w)
          \/ WorkerDispatch(w)
  \/ \E a \in acts : ActStart(a) \/ ActFail(a) \/ ActCancel(a) \/ ActSucceed(a)
  \/ CompRecv
  \/ \E d \in Range(order) : CompScan(d)
  \/ CompUnlock
  \/ CompExit
  \/ CloserPoll
  \/ CloserClose
  \/ MainClose
  \/ MainReturn

SpecExec == InitExec /\ [][NextExec]_vars

\* --------------------------------------------- dagExec(edges, cmd, P)
RECURSIVE WaveEager(_, _, _, _)
\* mutant of Wave: a neighbour joins next one decrement early
WaveEager(rdy, inDeg, next, adj) ==
  IF rdy = <<>> THEN [inDeg |-> inDeg, queue |-> next]
  ELSE LET r == RelaxOffByOne(adj[Head(rdy)], inDeg, next)
       IN WaveEager(Tail(rdy), r.inDeg, r.queue, adj)

RECURSIVE Wave(_, _, _, _)
\* the body of one `for _, node := range ready`: every neighbour's
\* in-degree is decremented, and it joins next when it reaches 0
Wave(rdy, inDeg, next, adj) ==
  IF rdy = <<>> THEN [inDeg |-> inDeg, queue |-> next]
  ELSE LET r == Relax(adj[Head(rdy)], inDeg, next)
       IN Wave(Tail(rdy), r.inDeg, r.queue, adj)

\* one runNode goroutine per node of ready, each waiting for a slot
WaveGoroutines(rdy, count) ==
  {[dir |-> rdy[i], k |-> count[rdy[i]] + Cardinality({j \in 1..(i - 1) : rdy[j] = rdy[i]}),
    pc |-> "sem", dead |-> FALSE] : i \in 1..Len(rdy)}

\* the state at the head of the first `for len(ready) > 0`, for given
\* edges, maxParallel and failing directories
DagStart ==
  /\ impl = "dagExec"
  /\ TopoIdle /\ MainIdle
  /\ order = <<>> /\ dependencies = <<>> /\ dependents = <<>>
  /\ inDegree = BuildInDegree(edges)
  /\ \E iter \in Perms(NodesOf(edges)) : ready = InitialQueue(inDegree, iter)
  /\ readyClosed = FALSE
  /\ completed = <<>> /\ completedClosed = FALSE
  /\ errCh = <<>> /\ sem = 0 /\ ctxDone = FALSE
  /\ completedNodes = {} /\ completedMutex = "free"
  /\ pcW = <<>> /\ wDir = <<>> /\ acts = {}
  /\ spawned = [n \in NodesOf(edges) |-> 0]
  /\ comp = [pc |-> "done", node |-> 0, pending |-> {}]
  /\ pcCloser = "done" /\ pcMain = "loop" /\ result = <<>>
  /\ panicked = FALSE
  /\ startCount = [n \in NodesOf(edges) |-> 0]
  /\ succeeded = {} /\ failed = {} /\ sends = <<>>
  /\ idx = 0

InitDag ==
  /\ edges \in EdgeLists
  /\ maxParallel \in 0..MaxParallel
  /\ fails \in SUBSET NodesOf(edges)
  /\ DagStart

\* one pass of the loop body up to wg.Wait(): wg.Add(len(ready)), a
\* goroutine per ready node, next computed, ready = next
DagLaunch ==
  /\ impl = "dagExec" /\ pcMain = "loop"
  /\ ready # <<>>
  /\ LET w == Wave(ready, inDegree, <<>>, BuildAdj(edges))
     IN /\ inDegree' = w.inDeg
        /\ ready' = w.queue
  /\ acts' = acts \cup WaveGoroutines(ready, spawned)
  /\ spawned' = [n \in DOMAIN spawned |->
                   spawned[n] + Cardinality({i \in 1..Len(ready) : ready[i] = n})]
  /\ pcMain' = "wait"
  /\ UNCHANGED <<topoVars, mainVars, inputVars, depVars, errCh, sem, ctxDone, result, histVars,
                 idx>>

\* runNode: sem <- struct{}{} (blocks while P commands run), then the
\* command is started
DagAcquire(a) ==
  /\ impl = "dagExec" /\ a \in acts /\ a.pc = "sem"
  /\ sem < maxParallel
  /\ sem' = sem + 1
  /\ acts' = (acts \ {a}) \cup {[a EXCEPT !.pc = "run"]}
  /\ startCount' = [startCount EXCEPT ![a.dir] = @ + 1]
  /\ UNCHANGED <<topoVars, mainVars, inputVars, depVars, loopVars, ready, errCh, ctxDone,
                 spawned, pcMain, result, succeeded, failed, sends>>

\* the command exits zero: done[dir] is set, the slot released, wg.Done()
DagSucceed(a) ==
  /\ impl = "dagExec" /\ a \in acts /\ a.pc = "run"
  /\ a.dir \notin fails
  /\ succeeded' = succeeded \cup {a.dir}
  /\ sem' = sem - 1
  /\ acts' = acts \ {a}
  /\ UNCHANGED <<topoVars, mainVars, inputVars, depVars, loopVars, ready, errCh, ctxDone,
                 spawned, pcMain, result, startCount, failed, sends>>

\* the command returns an error: the goroutine goes on to errCh <- err
DagFail(a) ==
  /\ impl = "dagExec" /\ a \in acts /\ a.pc = "run"
  /\ a.dir \in fails
  /\ failed' = failed \cup {a.dir}
  /\ acts' = (acts \ {a}) \cup {[a EXCEPT !.pc = "err"]}
  /\ UNCHANGED <<topoVars, mainVars, inputVars, depVars, loopVars, ready, errCh, sem, ctxDone,
                 spawned, pcMain, result, startCount, succeeded, sends>>

\* errCh <- err on the channel of capacity 1 (blocks while it is full),
\* then done[dir], the slot released, wg.Done()
DagSendErr(a) ==
  /\ impl = "dagExec" /\ a \in acts /\ a.pc = "err"
  /\ Len(errCh) < 1
  /\ errCh' = Append(errCh, a.dir)
  /\ sem' = sem - 1
  /\ acts' = acts \ {a}
  /\ UNCHANGED <<topoVars, mainVars, inputVars, depVars, loopVars, ready, ctxDone, spawned,
                 pcMain, result, histVars>>

\* mutant of DagWait: the loop goes on without wg.Wait()
DagWaitNoBarrier ==
  /\ impl = "dagExec" /\ pcMain = "wait"
  /\ IF errCh # <<>>
     THEN /\ result' = <<Head(errCh)>>
          /\ errCh' = Tail(errCh)
          /\ pcMain' = "returned"
     ELSE /\ pcMain' = "loop"
          /\ UNCHANGED <<result, errCh>>
  /\ UNCHANGED <<topoVars, mainVars, inputVars, depVars, loopVars, ready, sem, ctxDone, acts,
                 spawned, histVars>>

\* mutant of DagWait: the error channel is not looked at between waves
DagWaitIgnoreErr ==
  /\ impl = "dagExec" /\ pcMain = "wait"
  /\ acts = {}
  /\ pcMain' = "loop"
  /\ UNCHANGED <<topoVars, mainVars, inputVars, depVars, loopVars, ready, sem, ctxDone, acts,
                 spawned, histVars, result, errCh>>

\* wg.Wait() returns; select { case err := <-errCh: return err; default: }
DagWait ==
  /\ impl = "dagExec" /\ pcMain = "wait"
  /\ acts = {}
  /\ IF errCh # <<>>
     THEN /\ result' = <<Head(errCh)>>
          /\ errCh' = Tail(errCh)
          /\ pcMain' = "returned"
     ELSE /\ pcMain' = "loop"
          /\ UNCHANGED <<result, errCh>>
  /\ UNCHANGED <<topoVars, mainVars, inputVars, depVars, loopVars, ready, sem, ctxDone, acts,
                 spawned, histVars>>

\* len(ready) == 0 ends the loop: return nil
DagReturnNil ==
  /\ impl = "dagExec" /\ pcMain = "loop"
  /\ ready = <<>>
  /\ result' = <<>>
  /\ pcMain' = "returned"
  /\ UNCHANGED <<topoVars, mainVars, inputVars, depVars, loopVars, ready, errCh, sem, ctxDone,
                 acts, spawned, histVars>>

NextDag ==
  \/ DagLaunch
  \/ \E a \in acts : DagAcquire(a) \/ DagSucceed(a) \/ DagFail(a) \/ DagSendErr(a)
  \/ DagWait
  \/ DagReturnNil

SpecDag == InitDag /\ [][NextDag]_vars

\* every goroutine of dagExec that can take a step is eventually scheduled
FairDag == SpecDag /\ WF_vars(NextDag)

\* ------------------------ the order-only execInOrder(order, cmd, P)
\* the orders its caller passes: the results of topoSort on the edges
TopoOrders(es) ==
  {topoSort(es, FALSE, iter).list : iter \in Perms(NodesOf(es))}

\* the state at the head of `for _, dir := range order`
InitSeq ==
  /\ impl = "execSeq"
  /\ TopoIdle /\ MainIdle
  /\ edges \in DagLists
  /\ order \in TopoOrders(edges)
  /\ maxParallel \in 0..MaxParallel
  /\ fails \in SUBSET NodesOf(edges)
  /\ dependencies = <<>> /\ dependents = <<>>
  /\ inDegree = <<>>
  /\ idx = 1
  /\ ready = <<>> /\ readyClosed = FALSE
  /\ completed = <<>> /\ completedClosed = FALSE
  /\ errCh = <<>> /\ sem = 0 /\ ctxDone = FALSE
  /\ completedNodes = {} /\ completedMutex = "free"
  /\ pcW = <<>> /\ wDir = <<>> /\ acts = {}
  /\ spawned = [n \in NodesOf(edges) |-> 0]
  /\ comp = [pc |-> "done", node |-> 0, pending |-> {}]
  /\ pcCloser = "done" /\ pcMain = "loop" /\ result = <<>>
  /\ panicked = FALSE
  /\ startCount = [n \in NodesOf(edges) |-> 0]
  /\ succeeded = {} /\ failed = {} /\ sends = <<>>

\* the loop head with ctx.Err() == nil: wg.Add(1), on to sem <- struct{}{}
SeqCheck ==
  /\ impl = "execSeq" /\ pcMain = "loop"
  /\ idx <= Len(order) /\ ~ctxDone
  /\ pcMain' = "sem"
  /\ UNCHANGED <<topoVars, mainVars, inputVars, depVars, loopVars, ready, errCh, sem, ctxDone,
                 acts, spawned, result, histVars>>

\* the loop ends: order is exhausted, or ctx.Err() != nil (break)
SeqBreak ==
  /\ impl = "execSeq" /\ pcMain = "loop"
  /\ idx > Len(order) \/ ctxDone
  /\ pcMain' = "wait"
  /\ UNCHANGED <<topoVars, mainVars, inputVars, depVars, loopVars, ready, errCh, sem, ctxDone,
                 acts, spawned, result, histVars>>

\* sem <- struct{}{} gets a slot; go func(dir)
SeqDispatch ==
  /\ impl = "execSeq" /\ pcMain = "sem"
  /\ sem < maxParallel
  /\ sem' = sem + 1
  /\ acts' = acts \cup {[dir |-> order[idx], k |-> spawned[order[idx]],
                          pc |-> "spawned", dead |-> FALSE]}
  /\ spawned' = [spawned EXCEPT ![order[idx]] = @ + 1]
  /\ idx' = idx + 1
  /\ pcMain' = "loop"
  /\ UNCHANGED <<topoVars, mainVars, inputVars, depVars, inDegree, ready, errCh, ctxDone,
                 result, histVars>>

\* the goroutine's double check: return if cancelled, else run the command
SeqStart(a) ==
  /\ impl = "execSeq" /\ a \in acts /\ a.pc = "spawned"
  /\ IF ctxDone
     THEN /\ acts' = acts \ {a}
          /\ sem' = sem - 1
          /\ UNCHANGED startCount
     ELSE /\ acts' = (acts \ {a}) \cup {[a EXCEPT !.pc = "run"]}
          /\ startCount' = [startCount EXCEPT ![a.dir] = @ + 1]
          /\ UNCHANGED sem
  /\ UNCHANGED <<topoVars, mainVars, inputVars, depVars, loopVars, ready, errCh, ctxDone,
                 spawned, pcMain, result, succeeded, failed, sends>>

\* the command exits zero: the slot is released, wg.Done()
SeqSucceed(a) ==
  /\ impl = "execSeq" /\ a \in acts /\ a.pc = "run"
  /\ a.dir \notin fails
  /\ succeeded' = succeeded \cup {a.dir}
  /\ sem' = sem - 1
  /\ acts' = acts \ {a}
  /\ UNCHANGED <<topoVars, mainVars, inputVars, depVars, loopVars, ready, errCh, ctxDone,
                 spawned, pcMain, result, startCount, failed, sends>>

\* the command returns an error (non-zero exit, or killed by the
\* cancelled context): errCh <- err
SeqFail(a) ==
  /\ impl = "execSeq" /\ a \in acts /\ a.pc = "run"
  /\ a.dir \in fails \/ ctxDone
  /\ Len(errCh) < Len(order)
  /\ errCh' = Append(errCh, a.dir)
  /\ failed' = failed \cup {a.dir}
  /\ acts' = (acts \ {a}) \cup {[a EXCEPT !.pc = "cancel"]}
  /\ UNCHANGED <<topoVars, mainVars, inputVars, depVars, loopVars, ready, sem, ctxDone,
                 spawned, pcMain, result, startCount, succeeded, sends>>

\* cancel(), then the deferred <-sem and wg.Done()
SeqCancel(a) ==
  /\ impl = "execSeq" /\ a \in acts /\ a.pc = "cancel"
  /\ ctxDone' = TRUE
  /\ sem' = sem - 1
  /\ acts' = acts \ {a}
  /\ UNCHANGED <<topoVars, mainVars, inputVars, depVars, loopVars, ready, errCh, spawned,
                 pcMain, result, histVars>>

\* wg.Wait(); close(errCh); return <-errCh (nil when it is empty)
SeqReturn ==
  /\ impl = "execSeq" /\ pcMain = "wait"
  /\ acts = {}
  /\ IF errCh # <<>>
     THEN result' = <<Head(errCh)>> /\ errCh' = Tail(errCh)
     ELSE result' = <<>> /\ UNCHANGED errCh
  /\ ctxDone' = TRUE
  /\ pcMain' = "returned"
  /\ UNCHANGED <<topoVars, mainVars, inputVars, depVars, loopVars, ready, sem, acts, spawned,
                 histVars>>

NextSeq ==
  \/ SeqCheck
  \/ SeqBreak
  \/ SeqDispatch
  \/ \E a \in acts : SeqStart(a) \/ SeqSucceed(a) \/ SeqFail(a) \/ SeqCancel(a)
  \/ SeqReturn

SpecSeq == InitSeq /\ [][NextSeq]_vars

\* ------------------------------------------------- a scenario
\* the scenario of five stacks: zones (1), vpc1 (2), vpc2 (3), eks1 (4) and
\* eks2 (5), with the edges (zones,vpc1), (zones,vpc2), (vpc1,eks1) and
\* (vpc2,eks2)
ScenarioEdges == <<<<1, 2>>, <<1, 3>>, <<2, 4>>, <<3, 5>>>>

\* execInOrder on the scenario with two slots, the order being one topoSort
\* returns, and at most one directory in which the command fails
InitScenario ==
  /\ edges = ScenarioEdges
  /\ order \in TopoOrders(ScenarioEdges)
  /\ maxParallel = 2
  /\ fails \in {S \in SUBSET NodesOf(ScenarioEdges) : Cardinality(S) <= 1}
  /\ ExecStart

SpecScenario == InitScenario /\ [][NextExec]_vars

\* the dependency-aware executor on the small inputs and on the scenario
InitExecScenario == InitExec \/ InitScenario

SpecExecScenario == InitExecScenario /\ [][NextExec]_vars

\* dagExec on the same scenario
InitDagScenario ==
  /\ edges = ScenarioEdges
  /\ maxParallel = 2
  /\ fails \in {S \in SUBSET NodesOf(ScenarioEdges) : Cardinality(S) <= 1}
  /\ DagStart

\* dagExec on the small inputs and on the scenario
SpecDagScenario == (InitDag \/ InitDagScenario) /\ [][NextDag]_vars

RECURSIVE WavesFrom(_, _, _)
\* the waves of `for len(ready) > 0`: the node sets the successive values
\* of ready hold
WavesFrom(rdy, inDeg, adj) ==
  IF rdy = <<>> THEN <<>>
  ELSE LET w == Wave(rdy, inDeg, <<>>, adj)
       IN <<Range(rdy)>> \o WavesFrom(w.queue, w.inDeg, adj)

WavesOf(es) ==
  WavesFrom(InitialQueue(BuildInDegree(es), CHOOSE iter \in Perms(NodesOf(es)) : TRUE),
            BuildInDegree(es), BuildAdj(es))

\* the waves a node is part of
WaveIdx(es, n) == {k \in 1..Len(WavesOf(es)) : n \in WavesOf(es)[k]}

\* ------------------------------------------------------------- main
\* parseDependencies(dir/main.tf): the directories the entries of the
\* dependencies block lead to, in the order the map is ranged over. Two
\* entries with different names may lead to the same directory. A
\* directory without main.tf has no entry.
parseDependencies(ds, dir) ==
  LET mine == SelectSeq(ds, LAMBDA e : e[2] = dir)
  IN [i \in 1..Len(mine) |-> mine[i][1]]

\* edges := []Edge{} and visited := map[string]bool{} in main
NothingCollected == [edges |-> <<>>, visited |-> {}, parsed |-> <<>>]

RECURSIVE collectEdges(_, _, _)
RECURSIVE CollectDeps(_, _, _, _)
RECURSIVE CollectDepsShallow(_, _, _, _)
\* mutant of CollectDeps: the target directory is not collected
CollectDepsShallow(ds, dir, deps, acc) ==
  IF deps = <<>> THEN acc
  ELSE CollectDepsShallow(ds, dir, Tail(deps),
                          [acc EXCEPT !.edges = Append(@, <<Head(deps), dir>>)])

\* collectEdges(dir, &edges, visited); acc holds edges and visited, and
\* parsed lists the directories parseDependencies was called for
collectEdges(ds, dir, acc) ==
  IF dir \in acc.visited THEN acc
  ELSE CollectDeps(ds, dir, parseDependencies(ds, dir),
                   [acc EXCEPT !.visited = @ \cup {dir},
                               !.parsed = Append(@, dir)])

\* its loop `for _, relPath := range deps`: the edge is appended, then the
\* target directory is collected
CollectDeps(ds, dir, deps, acc) ==
  IF deps = <<>> THEN acc
  ELSE CollectDeps(ds, dir, Tail(deps),
                   collectEdges(ds, Head(deps),
                                [acc EXCEPT !.edges = Append(@, <<Head(deps), dir>>)]))

RECURSIVE WalkAppendAll(_, _, _)
\* mutant of WalkAppend: the edge is appended whether or not its key is new
WalkAppendAll(dir, deps, acc) ==
  IF deps = <<>> THEN acc
  ELSE WalkAppendAll(dir, Tail(deps),
                     [acc EXCEPT !.edgeSet = @ \cup {<<Head(deps), dir>>},
                                 !.edges = Append(@, <<Head(deps), dir>>)])

RECURSIVE WalkAppend(_, _, _)
\* the loop of the walk function over the entries of one main.tf: an edge
\* whose key is not in edgeSet yet is added to edgeSet and appended
WalkAppend(dir, deps, acc) ==
  IF deps = <<>> THEN acc
  ELSE LET key == <<Head(deps), dir>>
       IN WalkAppend(dir, Tail(deps),
                     IF key \in acc.edgeSet THEN acc
                     ELSE [acc EXCEPT !.edgeSet = @ \cup {key},
                                      !.edges = Append(@, key)])

RECURSIVE Walk(_, _, _, _)
\* filepath.Walk visits the directories in lexical order; one that holds a
\* main.tf is counted and its entries are added
Walk(ds, sts, dir, acc) ==
  IF dir > MaxNodes THEN acc
  ELSE Walk(ds, sts, dir + 1,
            IF dir \in sts
            THEN WalkAppend(dir, parseDependencies(ds, dir),
                            [acc EXCEPT !.mainTfCount = @ + 1])
            ELSE acc)

\* the directories in which the command fails, in a run of main: at most one
MainFails == {S \in SUBSET Nodes : Cardinality(S) <= 1}

\* main after flag.Parse(): the file system and the flags are the inputs
InitMain ==
  /\ impl = "main"
  /\ TopoIdle
  /\ decls \in EdgeLists
  /\ stacks \in {S \in SUBSET Nodes : {decls[i][2] : i \in 1..Len(decls)} \subseteq S}
  /\ recursivePtr \in BOOLEAN
  /\ startDir \in IF recursivePtr THEN {0} ELSE Nodes
  /\ reversePtr \in BOOLEAN
  /\ execPtr \in BOOLEAN
  /\ maxParallel \in IF execPtr THEN 1..MaxParallel ELSE {MaxParallel}
  /\ fails \in IF execPtr THEN MainFails ELSE {{}}
  /\ pcProg = "discover"
  /\ edges = <<>> /\ edgeSet = {} /\ written = {}
  /\ order = <<>> /\ dependencies = <<>> /\ dependents = <<>>
  /\ ready = <<>> /\ readyClosed = FALSE
  /\ completed = <<>> /\ completedClosed = FALSE
  /\ errCh = <<>> /\ sem = 0 /\ ctxDone = FALSE
  /\ completedNodes = {} /\ completedMutex = "free"
  /\ pcW = <<>> /\ wDir = <<>> /\ acts = {} /\ spawned = <<>>
  /\ comp = [pc |-> "done", node |-> 0, pending |-> {}]
  /\ pcCloser = "done" /\ pcMain = "idle" /\ result = <<>>
  /\ panicked = FALSE
  /\ startCount = <<>> /\ succeeded = {} /\ failed = {} /\ sends = <<>>
  /\ LoopIdle

\* what main leaves alone until it calls dagExec
MainKeeps ==
  UNCHANGED <<topoVars, impl, order, maxParallel, fails, dependencies, dependents,
              execVars, loopVars, decls, stacks, startDir, recursivePtr, reversePtr,
              execPtr>>

\* -recursive: the walk over startDir; no main.tf at all is fatal
MainWalk ==
  /\ impl = "main" /\ pcProg = "discover" /\ recursivePtr
  /\ LET w == Walk(decls, stacks, 1, [edges |-> <<>>, edgeSet |-> {}, mainTfCount |-> 0])
     IN /\ edges' = w.edges
        /\ edgeSet' = w.edgeSet
        /\ pcProg' = IF w.mainTfCount = 0 THEN "fatal" ELSE "reverse"
  /\ UNCHANGED written
  /\ MainKeeps

\* without -recursive: collectEdges from startDir, then every edge's key is
\* put into edgeSet
MainCollect ==
  /\ impl = "main" /\ pcProg = "discover" /\ ~recursivePtr
  /\ LET c == collectEdges(decls, startDir, NothingCollected)
     IN /\ edges' = c.edges
        /\ edgeSet' = Range(c.edges)
  /\ pcProg' = "reverse"
  /\ UNCHANGED written
  /\ MainKeeps

\* mutant of MainReverse: the flag is ignored
MainReverseNot ==
  /\ impl = "main" /\ pcProg = "reverse"
  /\ edges' = edges
  /\ pcProg' = "branch"
  /\ UNCHANGED <<edgeSet, written>>
  /\ MainKeeps

\* if *reversePtr: Source and Target of every element of edges are swapped
\* in place; edgeSet is left as it is
MainReverse ==
  /\ impl = "main" /\ pcProg = "reverse"
  /\ edges' = IF reversePtr THEN reverseEdges(edges) ELSE edges
  /\ pcProg' = "branch"
  /\ UNCHANGED <<edgeSet, written>>
  /\ MainKeeps

\* if *execPtr != "": dagExec(edges, *execPtr, *maxParPtr) is called and
\* runs up to the head of its loop
MainExecute ==
  /\ impl = "main" /\ pcProg = "branch" /\ execPtr
  /\ impl' = "dagExec"
  /\ inDegree' = BuildInDegree(edges)
  /\ \E iter \in Perms(NodesOf(edges)) : ready' = InitialQueue(BuildInDegree(edges), iter)
  /\ spawned' = [n \in NodesOf(edges) |-> 0]
  /\ startCount' = [n \in NodesOf(edges) |-> 0]
  /\ pcMain' = "loop"
  /\ pcProg' = "dagExec"
  /\ UNCHANGED <<topoVars, edges, order, maxParallel, fails, dependencies, dependents,
                 depVars, errCh, sem, ctxDone, acts, result, succeeded, failed, idx,
                 decls, stacks, startDir, recursivePtr, reversePtr, execPtr, edgeSet,
                 written, sends>>

\* dagExec has returned: log.Fatalf("Execution failed") on an error, else
\* "All executions complete."
MainExecuted ==
  /\ impl = "dagExec" /\ pcProg = "dagExec" /\ pcMain = "returned"
  /\ pcProg' = IF result # <<>> THEN "fatal" ELSE "complete"
  /\ UNCHANGED <<topoVars, inputVars, execVars, loopVars, decls, stacks, startDir,
                 recursivePtr, reversePtr, execPtr, edgeSet, written>>

\* no -execute: writeDotFileMap(edgeSet, ...) writes one line per key
MainWriteDot ==
  /\ impl = "main" /\ pcProg = "branch" /\ ~execPtr
  /\ written' = edgeSet
  /\ pcProg' = "done"
  /\ UNCHANGED <<edges, edgeSet>>
  /\ MainKeeps

NextMain ==
  \/ MainWalk
  \/ MainCollect
  \/ MainReverse
  \/ MainExecute
  \/ MainExecuted
  \/ MainWriteDot
  \/ NextDag

SpecMain == InitMain /\ [][NextMain]_vars

\* ------------------------------------------------- the whole repository
Init == InitTopo \/ InitExec \/ InitDag \/ InitSeq \/ InitMain

Next == NextTopo \/ NextExec \/ NextDag \/ NextSeq \/ NextMain

Spec == Init /\ [][Next]_vars

\* the dependency-aware executor and dagExec
InitExecDag == InitExec \/ InitDag

NextExecDag == NextExec \/ NextDag

SpecExecDag == InitExecDag /\ [][NextExecDag]_vars

\* the runs in which at most one directory's command fails
InitAtMostOneFails == InitExecDag /\ Cardinality(fails) <= 1

\* every goroutine that can take a step is eventually scheduled; the
\* closer's sleeping rounds change nothing and are no steps
FairExecDag ==
  InitAtMostOneFails /\ [][NextExecDag]_vars /\ WF_vars(NextExecDag)

\* topoSort and dagExec, the two consumers of a raw edge list
SpecTopoDag == (InitTopo \/ InitDag) /\ [][NextTopo \/ NextDag]_vars

\* the three executors
InitExecutors == InitExec \/ InitDag \/ InitSeq

NextExecutors == NextExec \/ NextDag \/ NextSeq

SpecExecutors == InitExecutors /\ [][NextExecutors]_vars

\* ================================================================ claims
\* the list is a permutation of exactly the node set S
IsPermOf(list, S) == NoDup(list) /\ Range(list) = S

\* every edge's first endpoint stands before its second in list
Respects(list, es) ==
  \A i \in 1..Len(es) : Pos(list, es[i][1]) < Pos(list, es[i][2])

TopoReturned == impl = "topoSort" /\ pcTopo = "returned"

\* C1: for every acyclic edge list, topoSort(edges, false) returns a nil
\* error and a permutation of exactly the node set (no node twice, none
\* missing) in which every edge's Source stands before its Target.
C1_TopoOrder ==
  (TopoReturned /\ ~reverse /\ ~HasCycle(edges)) =>
     /\ ~topoResult.err
     /\ IsPermOf(topoResult.list, NodesOf(edges))
     /\ Respects(topoResult.list, edges)

\* an acyclic list over all the nodes, with a node of in-degree two or a
\* duplicated edge, has been sorted forwards
C1_Witness ==
  /\ TopoReturned /\ ~reverse /\ ~HasCycle(edges)
  /\ Cardinality(NodesOf(edges)) = MaxNodes
  /\ \E n \in NodesOf(edges) : InDegreeOf(edges, n) >= 2
  /\ Len(topoResult.list) = MaxNodes

\* C2: for every edge list that contains a cycle (a self-edge, or a cycle
\* inside a larger graph) topoSort returns the cycle error and a nil list,
\* never a partial order.
C2_CycleError ==
  (TopoReturned /\ HasCycle(edges)) =>
     /\ topoResult.err
     /\ topoResult.isNil
     /\ topoResult.list = <<>>

\* a self-edge next to a node that is on no cycle has been rejected
C2_Witness ==
  /\ TopoReturned /\ HasCycle(edges) /\ topoResult.err
  /\ \E i \in 1..Len(edges) : edges[i][1] = edges[i][2]
  /\ \E n \in NodesOf(edges) : n \notin ReachFrom(EdgeSet(edges), {n})

\* C3: for every acyclic edge list, topoSort(edges, true) returns a
\* permutation of the node set in which every original edge's Target stands
\* before its Source, and the result is one topoSort(reverseEdges(edges),
\* false) can return.
C3_ReverseOrder ==
  (TopoReturned /\ reverse /\ ~HasCycle(edges)) =>
     /\ ~topoResult.err
     /\ IsPermOf(topoResult.list, NodesOf(edges))
     /\ Respects(topoResult.list, reverseEdges(edges))
     /\ \E iter \in Perms(NodesOf(edges)) :
          topoResult = topoSort(reverseEdges(edges), FALSE, iter)

\* a chain over all the nodes has been sorted in reverse
C3_Witness ==
  /\ TopoReturned /\ reverse /\ ~HasCycle(edges)
  /\ Cardinality(NodesOf(edges)) = MaxNodes
  /\ Len(topoResult.list) = MaxNodes
  /\ topoResult.list[1] = edges[Len(edges)][2]

\* ---- executors
Returned == pcMain = "returned"

\* the action goroutines whose command has been started and has not returned
InCommand == {a \in acts : a.pc = "run"}

\* those among them whose process was really spawned
Running == {a \in InCommand : ~a.dead}

Started(n) == startCount[n] > 0

\* the nodes that depend, directly or transitively, on n
DependOn(n) == ReachFrom(EdgeSet(edges), {n})

\* C4: in the dependency-aware execInOrder, under every interleaving, for
\* every edge (s, t) the action of s has completed successfully before the
\* action of t is started.
C4_DepsBeforeStart ==
  impl = "execInOrder" =>
    \A i \in 1..Len(edges) : Started(edges[i][2]) => edges[i][1] \in succeeded

\* a node with two dependencies has been started with two workers
C4_Witness ==
  /\ impl = "execInOrder" /\ maxParallel >= 2
  /\ \E n \in NodesOf(edges) : Started(n) /\ Cardinality(dependencies[n]) >= 2

\* C5: in the three executors, for maxParallel P >= 1, the number of
\* actions running at the same time never exceeds P.
C5_AtMostP ==
  (impl \in {"execInOrder", "execSeq", "dagExec"} /\ maxParallel >= 1) =>
    Cardinality(InCommand) <= maxParallel

\* P commands run in dagExec while another goroutine of the wave waits
C5_Witness ==
  /\ impl = "dagExec" /\ maxParallel >= 1
  /\ Cardinality(InCommand) = maxParallel
  /\ \E a \in acts : a.pc = "sem"

\* C6: for any DAG, any P >= 1 and a command that always succeeds, the
\* dependency-aware execInOrder and dagExec eventually return, and when
\* they have returned the result is nil and every node's command has exited
\* zero.
C6_Liveness ==
  (fails = {} /\ maxParallel >= 1 /\ ~HasCycle(edges)) =>
    /\ <>Returned
    /\ [](Returned => (result = <<>> /\ succeeded = NodesOf(edges)))

\* the dependency-aware executor has returned nil after running three nodes
C6_Witness ==
  /\ impl = "execInOrder" /\ fails = {} /\ maxParallel >= 1
  /\ Returned /\ result = <<>>
  /\ Cardinality(NodesOf(edges)) = MaxNodes /\ succeeded = NodesOf(edges)

\* C7: in the dependency-aware execInOrder no node's action is ever started
\* twice.
C7_StartedOnce ==
  impl = "execInOrder" => \A n \in NodesOf(edges) : startCount[n] <= 1

\* both dependencies of a node are completed, one in the completion
\* goroutine's hand and the other still buffered, and the node gets started
C7_Witness ==
  /\ impl = "execInOrder"
  /\ \E n \in NodesOf(edges) :
       /\ Cardinality(dependencies[n]) >= 2
       /\ dependencies[n] \subseteq succeeded
       /\ startCount[n] = 1

\* C8: in the dependency-aware execInOrder and in dagExec, when a node's
\* action has failed no node that depends on it, directly or transitively,
\* is ever started, and a return after a failure returns a non-nil error.
C8_FailFast ==
  impl \in {"execInOrder", "dagExec"} =>
    /\ \A n \in failed : \A m \in DependOn(n) : ~Started(m)
    /\ (Returned /\ failed # {}) => result # <<>>

\* dagExec has returned an error after the failure of a node on which two
\* others depend
C8_Witness ==
  /\ impl = "dagExec" /\ Returned /\ result # <<>>
  /\ \E n \in failed : Cardinality(DependOn(n)) >= 2

\* C9: in the dependency-aware execInOrder, once an action has failed and
\* cancel() has run, no action is started any more.
C9_NoStartAfterCancel ==
  [][(impl = "execInOrder" /\ failed # {} /\ ctxDone) => startCount' = startCount]_vars

\* C10: the dependency-aware execInOrder never returns while a command it
\* started is still running.
C10_NoReturnWhileRunning ==
  (impl = "execInOrder" /\ Returned) => Running = {}

\* C11: in the dependency-aware execInOrder, when one or more actions have
\* failed the function returns one error, never nil, and that error is the
\* one recorded first on errCh: the oldest error stays at the head of errCh
\* until the return takes it.
C11_FirstError ==
  /\ []((impl = "execInOrder" /\ Returned /\ failed # {}) => Len(result) = 1)
  /\ [][(impl = "execInOrder" /\ errCh # <<>>) =>
          IF pcMain # "returned" /\ pcMain' = "returned"
          THEN result' = <<Head(errCh)>>
          ELSE errCh' # <<>> /\ Head(errCh') = Head(errCh)]_vars

\* two actions have failed before the return: one error was returned, the
\* other is left on errCh
C11_Witness ==
  /\ impl = "execInOrder" /\ Returned
  /\ Cardinality(failed) >= 2 /\ Len(result) = 1 /\ errCh # <<>>
  /\ failed \subseteq fails

\* C12: in dagExec with P >= 1, also when two or more actions started in
\* the same wave fail, dagExec eventually returns.
C12_ReturnsAfterFailures ==
  (impl = "dagExec" /\ maxParallel >= 1) => <>Returned

\* C20: two calls of topoSort with the same edge list and the same reverse
\* flag in the same process return the same order.
C20_SameOrderTwice ==
  (impl = "topoSort" /\ pcTopo = "again") => topoAgain = topoResult

\* the nodes whose command has returned, with or without an error
Finished == succeeded \cup failed

\* C18: in dagExec, for every acyclic edge list and every P >= 1, for every
\* edge (s, t) the command of s has finished before the command of t is
\* started.
C18_DagOrder ==
  (impl = "dagExec" /\ maxParallel >= 1 /\ ~HasCycle(edges)) =>
    \A i \in 1..Len(edges) : Started(edges[i][2]) => edges[i][1] \in Finished

\* with two slots, a node that has two different predecessors is started
C18_Witness ==
  /\ impl = "dagExec" /\ maxParallel >= 2 /\ ~HasCycle(edges)
  /\ \E n \in NodesOf(edges) :
       /\ Started(n)
       /\ Cardinality({e[1] : e \in {f \in EdgeSet(edges) : f[2] = n}}) >= 2

\* C19: when an action has failed, the error value the executor returns
\* identifies the node that failed: the same cause in any other node would
\* have given a different value.
C19_ErrorNamesNode ==
  (impl \in {"execInOrder", "dagExec"} /\ Returned /\ result # <<>>) =>
    \A m \in NodesOf(edges) \ {result[1]} :
      ErrOf(m, Cause(result[1])) # ErrOf(result[1], Cause(result[1]))

\* ---- main
\* main has called dagExec
MainExecuting == pcProg \in {"dagExec", "fatal", "complete"}

\* the directories discovery found to be stacks: with -recursive those
\* that hold a main.tf, else the start directory and all it depends on
Discovered ==
  IF recursivePtr THEN stacks
  ELSE collectEdges(decls, startDir, NothingCollected).visited

\* C13: on main's -execute path, when the discovered edges contain a cycle
\* no action is started and no success is reported.
C13_CycleRejected ==
  (MainExecuting /\ HasCycle(edges)) =>
    /\ \A n \in NodesOf(edges) : ~Started(n)
    /\ pcProg # "complete"

\* C14: with -execute, when main reports that all executions are complete
\* (acyclic edges), the command has run in every directory discovered as a
\* stack.
C14_EveryStackRuns ==
  (pcProg = "complete" /\ ~HasCycle(edges)) => Discovered \subseteq succeeded

\* C15: with -reverse and no -execute, every edge main writes is
\* (Target -> Source) of a discovered edge (Source, Target).
C15_WrittenReversed ==
  (pcProg = "done" /\ reversePtr) => written = {<<k[2], k[1]>> : k \in edgeSet}

\* C16: with -reverse and -execute on an acyclic graph, for every discovered
\* declaration `t depends on d` (the key <<d, t>> of edgeSet) the command in
\* t has completed before the command in d is started.
C16_ReverseExecution ==
  (MainExecuting /\ reversePtr /\ ~HasCycle(edges)) =>
    \A k \in edgeSet : Started(k[1]) => k[2] \in Finished

\* a chain of three stacks was run in reverse, two at a time at most, and
\* main reports success
C16_Witness ==
  /\ pcProg = "complete" /\ reversePtr /\ ~HasCycle(edges)
  /\ \E a, b, c \in Nodes :
       /\ Cardinality({a, b, c}) = 3
       /\ {<<a, b>>, <<b, c>>} \subseteq edgeSet
       /\ {a, b, c} \subseteq succeeded

\* C17: after discovery, in both modes, edges holds each (Source, Target)
\* pair at most once, and edgeSet holds the same pairs.
C17_NoDuplicateEdges ==
  (impl = "main" /\ pcProg = "reverse") => (NoDup(edges) /\ edgeSet = Range(edges))

\* C21: in dagExec, when an action has failed while another action is
\* still running, the context of the running action gets cancelled.
C21_DagCancels ==
  (impl = "dagExec" /\ failed # {} /\ Running # {}) ~> ctxDone

\* C24: in dagExec, once any action has failed no command is started any
\* more, also not by the goroutines of the same wave that were waiting for
\* a semaphore slot.
C24_DagNoStartAfterFailure ==
  [][(impl = "dagExec" /\ failed # {}) => startCount' = startCount]_vars

\* C22: in the dependency-aware execInOrder eligibility is decided by the
\* edges only: whatever permutation of the nodes is passed as `order`,
\* every edge's Source has completed before its Target is started, and the
\* dependency maps are those any other permutation would give.
C22_EdgesDecide ==
  impl = "execInOrder" =>
    /\ \A e \in EdgeSet(edges) : Started(e[2]) => e[1] \in succeeded
    /\ \A p \in Perms(NodesOf(edges)) :
         /\ \A n \in NodesOf(edges) : Dependencies(p, edges)[n] = dependencies[n]
         /\ \A n \in NodesOf(edges) : Dependents(p, edges)[n] = dependents[n]

\* a chain of three nodes was passed in reversed order, and its last node
\* has been started
C22_Witness ==
  /\ impl = "execInOrder"
  /\ \E a, b, c \in Nodes :
       /\ Cardinality({a, b, c}) = 3
       /\ EdgeSet(edges) = {<<a, b>>, <<b, c>>}
       /\ order = <<c, b, a>>
       /\ Started(c)

\* C23: reverseEdges returns a new list of the same length whose i-th edge
\* is the i-th input edge with Source and Target swapped, and leaves its
\* input as it was; a call of topoSort leaves the caller's edges unchanged.
C23_ReverseEdgesPure ==
  /\ [](impl = "topoSort" =>
          LET r == ReverseEdgesOn(<<edges>>, 1)
          IN /\ r.ret # 1
             /\ r.heap[1] = edges
             /\ Len(r.heap[r.ret]) = Len(edges)
             /\ \A i \in 1..Len(edges) :
                  r.heap[r.ret][i] = <<edges[i][2], edges[i][1]>>)
  /\ [][impl = "topoSort" => edges' = edges]_vars

\* topoSort has returned an order for a full-length list, reversed, that
\* is not its own reversal
C23_Witness ==
  /\ impl = "topoSort" /\ pcTopo = "returned" /\ reverse
  /\ ~topoResult.err
  /\ Len(edges) = MaxEdges
  /\ \E i \in 1..Len(edges) : edges[i][1] # edges[i][2]

\* C25: the order-only execInOrder, given a topological order of a DAG and
\* P >= 1, never starts a node's command before the commands of all the
\* nodes it depends on have completed.
C25_SeqDepsBeforeStart ==
  (impl = "execSeq" /\ maxParallel >= 1) =>
    \A e \in EdgeSet(edges) : Started(e[2]) => e[1] \in Finished

\* C26: in the dependency-aware execInOrder completedNodes is read and
\* written only by a goroutine that holds completedMutex: the completion
\* goroutine writes it in the step that takes the mutex and reads it while
\* it holds it; an action goroutine's check and the closer's scan are made
\* only when nobody else holds the mutex.
C26_MutexGuards ==
  /\ [](impl = "execInOrder" => (completedMutex # "free" <=> comp.pc = "scan"))
  /\ [][impl = "execInOrder" =>
          /\ completedNodes' # completedNodes =>
               (completedMutex = "free" /\ completedMutex' = "completion")
          /\ (comp.pc = "scan" /\ comp'.pending # comp.pending) =>
               completedMutex = "completion"
          /\ (\E a \in acts : a.pc = "spawned" /\ a \notin acts') =>
               completedMutex = "free"
          /\ (pcCloser = "poll" /\ pcCloser' = "close" /\ ~ctxDone) =>
               completedMutex = "free"]_vars

\* an action goroutine waits to make its check while the completion
\* goroutine holds the mutex and still has dependents to look at
C26_Witness ==
  /\ impl = "execInOrder"
  /\ completedMutex = "completion" /\ comp.pending # {}
  /\ \E a \in acts : a.pc = "spawned"

\* C27: in the dependency-aware execInOrder admission to the P slots does
\* not block the detection of newly ready nodes: whatever the number of
\* slots taken, the completion goroutine can receive a completion as soon
\* as the mutex is free and can pass on every dependent it has in hand. In
\* the scenario with two slots zones runs first and alone.
C27_DetectionNotBlocked ==
  (impl = "execInOrder" /\ ~panicked) =>
    /\ (comp.pc = "recv" /\ completed # <<>> /\ completedMutex = "free") =>
         ENABLED CompRecv
    /\ \A d \in comp.pending : comp.pc = "scan" => ENABLED CompScan(d)
    /\ edges = ScenarioEdges =>
         \A n \in NodesOf(edges) \ {1} : Started(n) => 1 \in succeeded

\* eks1 and eks2 run at the same time, after zones, vpc1 and vpc2
C27_Witness ==
  /\ impl = "execInOrder" /\ edges = ScenarioEdges /\ maxParallel = 2
  /\ {a.dir : a \in Running} = {4, 5}
  /\ succeeded = {1, 2, 3}

\* the directories startDir depends on, directly or transitively, and itself
ReachableDirs ==
  {startDir} \cup ReachFrom({<<e[2], e[1]>> : e \in Range(decls)}, {startDir})

\* C28: collectEdges terminates for every structure of declarations, cyclic
\* ones included: each directory is parsed at most once, exactly the
\* directories reachable from the start directory are visited, and the
\* result holds one edge (dependency, declaring directory) for every
\* declaration of every reachable directory.
C28_CollectEdges ==
  (impl = "main" /\ ~recursivePtr /\ pcProg = "reverse") =>
    LET c == collectEdges(decls, startDir, NothingCollected)
        mine == {i \in 1..Len(decls) : decls[i][2] \in ReachableDirs}
    IN /\ edges = c.edges
       /\ NoDup(c.parsed)
       /\ c.visited = ReachableDirs
       /\ Len(edges) = Cardinality(mine)
       /\ \A e \in Edge :
            Cardinality({i \in 1..Len(edges) : edges[i] = e})
              = Cardinality({i \in mine : decls[i] = e})

\* the start directory and one of its dependencies declare each other, and
\* both edges were collected
C28_Witness ==
  /\ impl = "main" /\ ~recursivePtr /\ pcProg = "reverse"
  /\ \E d \in Nodes \ {startDir} :
       /\ {<<d, startDir>>, <<startDir, d>>} \subseteq Range(decls)
       /\ {<<d, startDir>>, <<startDir, d>>} \subseteq Range(edges)

\* C29: in the dependency-aware execInOrder no goroutine sends on a closed
\* channel: no send on ready after the closer closed it and no send on
\* completed after the main goroutine closed it.
C29_NoSendOnClosed == impl = "execInOrder" => ~panicked

\* C30: in the dependency-aware execInOrder every node is sent on ready at
\* most once and on completed at most once; ready, completed and errCh
\* never hold more than len(order) items; and no send on them blocks: a
\* goroutine that stands at a send can take the step, in particular the
\* completion goroutine while it holds completedMutex.
C30_SendsNeverBlock ==
  (impl = "execInOrder" /\ ~panicked) =>
    /\ \A n \in Range(order) : sends.ready[n] <= 1 /\ sends.completed[n] <= 1
    /\ Len(ready) <= ChanCap /\ Len(completed) <= ChanCap /\ Len(errCh) <= ChanCap
    /\ comp.pc = "scan" =>
         completedMutex = "completion" /\ \A d \in comp.pending : ENABLED CompScan(d)
    /\ \A a \in acts : a.pc = "run" => ENABLED (ActFail(a) \/ ActSucceed(a))

\* a node with dependencies went through both channels: the completion
\* goroutine sent it on ready while it held the mutex, and its action sent
\* it on completed
C30_Witness ==
  /\ impl = "execInOrder" /\ ~panicked
  /\ \E n \in Range(order) :
       /\ dependencies[n] # {}
       /\ sends.ready[n] = 1 /\ sends.completed[n] = 1
       /\ n \in completedNodes

\* C31: dagExec executes in waves with a barrier: while a node of some
\* wave has been started, no action of an earlier wave is still live, so
\* no node of wave k+1 starts before every action of wave k has finished.
C31_WaveBarrier ==
  impl = "dagExec" =>
    \A n \in NodesOf(edges) : \A a \in acts :
      Started(n) => \A i \in WaveIdx(edges, n) : \A j \in WaveIdx(edges, a.dir) : i <= j

\* a node of the next wave waits although its own dependencies have all
\* finished and a slot is free: an action of the current wave still runs
C31_Witness ==
  /\ impl = "dagExec" /\ pcMain = "wait" /\ sem < maxParallel
  /\ \E a \in acts : a.pc = "run"
  /\ \E n \in Range(ready) :
       /\ ~Started(n)
       /\ {e[1] : e \in {f \in EdgeSet(edges) : f[2] = n}} # {}
       /\ {e[1] : e \in {f \in EdgeSet(edges) : f[2] = n}} \subseteq succeeded

\* C32: with maxParallel = 0 and a non-empty DAG the dependency-aware
\* execInOrder starts no worker, runs no action, is never kept from
\* returning, and returns nil.
C32_ZeroParallelReturnsNil ==
  (impl = "execInOrder" /\ maxParallel = 0 /\ order # <<>>) =>
    /\ DOMAIN pcW = {} /\ acts = {} /\ ~panicked
    /\ \A n \in Range(order) : startCount[n] = 0 /\ spawned[n] = 0
    /\ succeeded = {} /\ failed = {}
    /\ pcMain = "wait" => ENABLED MainClose
    /\ pcMain = "select" => ENABLED MainReturn
    /\ pcMain = "returned" => result = <<>>

\* the call has returned nil although nodes without dependencies are
\* still queued on ready
C32_Witness ==
  /\ impl = "execInOrder" /\ maxParallel = 0 /\ order # <<>>
  /\ pcMain = "returned" /\ result = <<>>
  /\ ready # <<>>
  /\ \A n \in Range(order) : startCount[n] = 0

\* the edge list without its repeated pairs: a pair stays where it stands
\* first, as in main's `if _, exists := edgeSet[key]; !exists`
Dedup(es) ==
  LET F[i \in 0..Len(es)] ==
        IF i = 0 THEN <<>>
        ELSE IF \E j \in 1..(i - 1) : es[j] = es[i] THEN F[i - 1]
             ELSE Append(F[i - 1], es[i])
  IN F[Len(es)]

\* what topoSort can return for an edge list, over the map iteration orders
TopoResults(es, rev) == {topoSort(es, rev, iter) : iter \in Perms(NodesOf(es))}

\* C33: topoSort and dagExec are insensitive to duplicate edges: what
\* topoSort returns is a possible result for the deduplicated list, dagExec
\* runs the waves of the deduplicated list, and a node is enqueued once
\* and only with in-degree zero.
C33_DuplicatesIgnored ==
  /\ (impl = "topoSort" /\ pcTopo # "call") =>
       topoResult \in TopoResults(Dedup(edges), reverse)
  /\ impl = "dagExec" =>
       /\ WavesOf(edges) = WavesOf(Dedup(edges))
       /\ NoDup(ready)
       /\ \A n \in NodesOf(edges) :
            /\ spawned[n] <= 1
            /\ n \in Range(ready) => inDegree[n] = 0 /\ spawned[n] = 0

\* the edge list without its repeated pairs, a pair staying where it
\* stands last: the place where the last decrement for its target happens
DedupLast(es) ==
  LET F[i \in 0..Len(es)] ==
        IF i = 0 THEN <<>>
        ELSE IF \E j \in (i + 1)..Len(es) : es[j] = es[i] THEN F[i - 1]
             ELSE Append(F[i - 1], es[i])
  IN F[Len(es)]

\* C33 as amended: for an edge list with repeated pairs, topoSort has the
\* same possible results as for the list that keeps each pair where it
\* occurs last, dagExec runs the same waves as for the deduplicated list,
\* and a node is enqueued once and only with in-degree zero.
C33_DuplicatesKeptLast ==
  /\ impl = "topoSort" =>
       /\ TopoResults(edges, reverse) = TopoResults(DedupLast(edges), reverse)
       /\ pcTopo # "call" =>
            /\ topoResult \in TopoResults(DedupLast(edges), reverse)
            /\ NoDup(topoResult.list)
  /\ impl = "dagExec" =>
       /\ WavesOf(edges) = WavesOf(Dedup(edges))
       /\ WavesOf(edges) = WavesOf(DedupLast(edges))
       /\ NoDup(ready)
       /\ \A n \in NodesOf(edges) :
            /\ spawned[n] <= 1
            /\ n \in Range(ready) => inDegree[n] = 0 /\ spawned[n] = 0

\* topoSort has returned an order for a list with a repeated pair, and
\* the order is none it can return for the list of first occurrences
C33_Witness ==
  /\ impl = "topoSort" /\ pcTopo # "call"
  /\ ~NoDup(edges)
  /\ ~topoResult.err /\ Len(topoResult.list) = Cardinality(NodesOf(edges))
  /\ topoResult \notin TopoResults(Dedup(edges), reverse)

====
